---- MODULE Spec2Model ----
(***************************************************************************)
(* axum-media: content negotiation for request and response bodies.       *)
(*                                                                         *)
(* A request is decoded by AnyMedia::from_request (Content-Type picks the *)
(* deserializer) and a value is encoded by                                 *)
(* AnyMediaIntoResponse::into_response (the MIME hint picks the            *)
(* serializer).  Texts are modelled as sequences of tokens so that        *)
(* parsing, serializing and deserializing are computed, not assumed.      *)
(***************************************************************************)
EXTENDS Integers, Sequences, FiniteSets, TLC

(***************************************************************************)
(* Bounds of the model.                                                    *)
(***************************************************************************)
\* the most "+" signs in the subtype of a MIME text
MaxPlus == 1
NumCalls == 2

(***************************************************************************)
(* MIME texts.  A text is a sequence of tokens: names (runs of token       *)
(* characters other than '+'), and the one-character tokens "/", "+" and   *)
(* " " (a space, which is not a token character).                         *)
(***************************************************************************)
TypeNames == {"application", "image"}
SubNames  == {"json", "x-www-form-urlencoded", "yaml", "xml", "vnd.x", "png"}

RECURSIVE SubtypeTexts(_)
\* the subtypes with exactly n "+" signs
SubtypeTexts(n) ==
  IF n = 0 THEN { <<s>> : s \in SubNames }
  ELSE { st \o <<"+", x>> : st \in SubtypeTexts(n - 1), x \in SubNames }

MimeTexts ==
       { <<>>, <<"application", " ", "/", "yaml">>, <<"APPLICATION", "/", "yaml">> }
  \cup { <<t>> : t \in TypeNames }
  \cup { <<t, "/">> \o st : t \in TypeNames,
                            st \in UNION { SubtypeTexts(n) : n \in 0..MaxPlus } }

\* str::to_ascii_lowercase, token by token
Lower(tok) == IF tok = "APPLICATION" THEN "application" ELSE tok

LowerAll(text) == [i \in 1..Len(text) |-> Lower(text[i])]

IsTokenChar(tok) == tok \notin {"/", " "}

\* position of the first "/" of a text, 0 when there is none
FirstSlash(text) ==
  IF \E i \in 1..Len(text) : text[i] = "/"
  THEN CHOOSE i \in 1..Len(text) :
         text[i] = "/" /\ \A j \in 1..(i - 1) : text[j] # "/"
  ELSE 0

\* position of the last "+" after position start, 0 when there is none
LastPlus(text, start) ==
  IF \E i \in (start + 1)..Len(text) : text[i] = "+"
  THEN CHOOSE i \in (start + 1)..Len(text) :
         text[i] = "+" /\ \A j \in (i + 1)..Len(text) : text[j] # "+"
  ELSE 0

NoMime == [ok |-> FALSE, source |-> <<>>, slash |-> 0, plus |-> 0]

\* <Mime as FromStr>::from_str of the mime crate, without parameters:
\* the type is every token before the first "/", which must not be the first
\* token; every token after it must be a token character; the last "+" that
\* is not the first token of the subtype splits subtype and suffix.
ParseMime(text) ==
  LET slash == FirstSlash(text) IN
  IF slash <= 1 THEN NoMime
  ELSE IF \E i \in 1..Len(text) : i # slash /\ ~IsTokenChar(text[i]) THEN NoMime
  ELSE [ok |-> TRUE, source |-> LowerAll(text), slash |-> slash,
        plus |-> LastPlus(text, slash + 1)]

\* mime::APPLICATION_JSON
APPLICATION_JSON == ParseMime(<<"application", "/", "json">>)

\* Mime::type_, Mime::subtype, Mime::suffix (<<>> stands for no suffix)
Type_(m) == SubSeq(m.source, 1, m.slash - 1)
Subtype(m) ==
  SubSeq(m.source, m.slash + 1,
         IF m.plus = 0 THEN Len(m.source) ELSE m.plus - 1)
HasSuffix(m) == m.plus # 0
Suffix(m) == IF m.plus = 0 THEN <<>> ELSE SubSeq(m.source, m.plus + 1, Len(m.source))

\* <Mime as Display>::fmt: the lowercased source
MimeToString(m) == m.source

(***************************************************************************)
(* Codec resolution.  feats is the set of enabled cargo features.         *)
(***************************************************************************)
APPLICATION == <<"application">>

\* the first match of into_response: (type, subtype); "None" is no arm taken
EncodeBySubtype(m, feats) ==
  IF Type_(m) # APPLICATION THEN "None"
  ELSE IF Subtype(m) = <<"json">> THEN "Json"
  ELSE IF "urlencoded" \in feats /\ Subtype(m) = <<"x-www-form-urlencoded">>
    THEN "UrlEncoded"
  ELSE IF "yaml" \in feats /\ Subtype(m) = <<"yaml">> THEN "Yaml"
  ELSE IF "xml" \in feats /\ Subtype(m) = <<"xml">> THEN "Xml"
  ELSE "None"

\* a second match whose arms are compiled in whatever the features are
EncodeBySuffix_Ungated(m, feats) ==
  IF Type_(m) # APPLICATION \/ ~HasSuffix(m) THEN "Json"
  ELSE IF Suffix(m) = <<"x-www-form-urlencoded">> THEN "UrlEncoded"
  ELSE IF Suffix(m) = <<"yaml">> THEN "Yaml"
  ELSE IF Suffix(m) = <<"xml">> THEN "Xml"
  ELSE "Json"

\* the second match of into_response: (type, suffix), ending in JSON
EncodeBySuffix(m, feats) ==
  IF Type_(m) # APPLICATION \/ ~HasSuffix(m) THEN "Json"
  ELSE IF "urlencoded" \in feats /\ Suffix(m) = <<"x-www-form-urlencoded">>
    THEN "UrlEncoded"
  ELSE IF "yaml" \in feats /\ Suffix(m) = <<"yaml">> THEN "Yaml"
  ELSE IF "xml" \in feats /\ Suffix(m) = <<"xml">> THEN "Xml"
  ELSE "Json"

\* a resolution that lets a supported suffix win over the subtype
EncodeCodec_SuffixFirst(m, feats) ==
  IF EncodeBySuffix(m, feats) # "Json"
  THEN EncodeBySuffix(m, feats)
  ELSE IF EncodeBySubtype(m, feats) # "None" THEN EncodeBySubtype(m, feats)
  ELSE "Json"

\* the serializer into_response runs for a parsed mime
EncodeCodec(m, feats) ==
  IF EncodeBySubtype(m, feats) # "None"
  THEN EncodeBySubtype(m, feats)
  ELSE EncodeBySuffix(m, feats)

\* a from_request that knows the JSON deserializer only
DecodeCodec_JsonOnly(m, feats) == "Json"

\* the deserializer from_request runs for a parsed mime
DecodeCodec(m, feats) ==
  IF Type_(m) # APPLICATION THEN "Json"
  ELSE IF "urlencoded" \in feats /\ Subtype(m) = <<"x-www-form-urlencoded">>
    THEN "UrlEncoded"
  ELSE IF "yaml" \in feats /\ Subtype(m) = <<"yaml">> THEN "Yaml"
  ELSE "Json"

(***************************************************************************)
(* Header values.  A header is absent, or present with bytes that are not *)
(* visible ASCII (HeaderValue::to_str fails), or present with a text.     *)
(***************************************************************************)
AbsentHeader == [present |-> FALSE, ascii |-> FALSE, text |-> <<>>]
OpaqueHeader == [present |-> TRUE, ascii |-> FALSE, text |-> <<>>]
TextHeader(text) == [present |-> TRUE, ascii |-> TRUE, text |-> text]

Headers == {AbsentHeader, OpaqueHeader} \cup {TextHeader(t) : t \in MimeTexts}

\* headers().get(name).map(|h| h.to_str().unwrap_or("")).unwrap_or("")
HeaderStr(h) == IF h.present /\ h.ascii THEN h.text ELSE <<>>

\* from_request: .parse().unwrap_or(mime::APPLICATION_JSON)
RequestMime(h) ==
  IF ParseMime(HeaderStr(h)).ok THEN ParseMime(HeaderStr(h)) ELSE APPLICATION_JSON

\* Option<Mime>: NoMime is None
\* AnyMedia::with_mime_str: mime.parse().ok()
WithMimeStr(text) == ParseMime(text)

\* an into_response that falls back to YAML
ResponseMime_Yaml(hint) ==
  IF hint.ok THEN hint ELSE ParseMime(<<"application", "/", "yaml">>)

\* into_response: self.mime.unwrap_or(mime::APPLICATION_JSON)
ResponseMime(hint) == IF hint.ok THEN hint ELSE APPLICATION_JSON

(***************************************************************************)
(* Values.  What serde sees of the handler's data: booleans, strings,     *)
(* sequences, maps or structs of named fields, and a value whose          *)
(* Serialize implementation returns an error (such as a path that is not  *)
(* UTF-8).  Every value is a record of the same shape.                    *)
(***************************************************************************)
VBool(b)      == [t |-> "bool", s |-> b, items |-> <<>>]
VStr(x)       == [t |-> "str", s |-> x, items |-> <<>>]
VSeq(elems)   == [t |-> "seq", s |-> "", items |-> elems]
VMap(fields)  == [t |-> "map", s |-> "", items |-> fields]
VUnserializable == [t |-> "unserializable", s |-> "", items |-> <<>>]
Field(k, v)   == [k |-> k, v |-> v]

\* a value together with the Rust type that holds it
Data(ty, v) == [ty |-> ty, v |-> v]

\* struct TestData { test: bool } of the tests, serde_json::Value of the
\* examples, and a struct with a path field
Values ==
  { Data("TestData", VMap(<<Field("test", VBool(b))>>)) : b \in {"true", "false"} }
  \cup
  { Data("Value", VMap(<<Field("test", VBool("true"))>>)),
    Data("Value", VMap(<<Field("key", VStr("value")), Field("test", VBool("true"))>>)),
    Data("Value", VMap(<<Field("routes", VSeq(<<VStr("/"), VStr("/login")>>))>>)),
    Data("FileRef", VMap(<<Field("path", VUnserializable)>>)) }

(***************************************************************************)
(* Bodies.  A body is a sequence of tokens; a token is a punctuation      *)
(* mark, a bare word, a double-quoted or single-quoted string, or an      *)
(* opening or closing XML tag.                                             *)
(***************************************************************************)
P(x)     == [q |-> "punct", s |-> x]
W(x)     == [q |-> "word", s |-> x]
DQ(x)    == [q |-> "dq", s |-> x]
SQ(x)    == [q |-> "sq", s |-> x]
Open(x)  == [q |-> "open", s |-> x]
Close(x) == [q |-> "close", s |-> x]

\* the result of a serializer: Ok(()) or Err(msg), and what reached the buffer
SerOk(out)       == [ok |-> TRUE, out |-> out, msg |-> ""]
SerErr(out, msg) == [ok |-> FALSE, out |-> out, msg |-> msg]

\* the error of a failing Serialize implementation
CustomSerError == "path contains invalid UTF-8 characters"

RECURSIVE JsonElements(_, _)
\* the elements of a JSON array from index i on, comma separated
JsonElements(elems, i) ==
  IF i > Len(elems) THEN <<>>
  ELSE (IF i > 1 THEN <<P(",")>> ELSE <<>>)
       \o <<DQ(elems[i].s)>> \o JsonElements(elems, i + 1)

\* serde_json's output for a value that is not a map; sequences hold strings
JsonValue(v) ==
  IF v.t = "bool" THEN SerOk(<<W(v.s)>>)
  ELSE IF v.t = "null" THEN SerOk(<<W("null")>>)
  ELSE IF v.t = "str" THEN SerOk(<<DQ(v.s)>>)
  ELSE IF v.t = "seq" THEN SerOk(<<P("[")>> \o JsonElements(v.items, 1) \o <<P("]")>>)
  ELSE SerErr(<<>>, CustomSerError)

RECURSIVE JsonMembers(_, _)
\* the members of a JSON object from index i on; the writer is streaming, so
\* a failing member leaves what precedes it in the buffer
JsonMembers(fields, i) ==
  IF i > Len(fields) THEN SerOk(<<P("}")>>)
  ELSE LET head == (IF i > 1 THEN <<P(",")>> ELSE <<>>)
                   \o <<DQ(fields[i].k), P(":")>>
           val  == JsonValue(fields[i].v)
           rest == JsonMembers(fields, i + 1)
       IN IF ~val.ok THEN SerErr(head, val.msg)
          ELSE IF ~rest.ok THEN SerErr(head \o val.out \o rest.out, rest.msg)
          ELSE SerOk(head \o val.out \o rest.out)

\* mimetypes::serialize_json
serialize_json(data) ==
  LET m == JsonMembers(data.v.items, 1) IN
  IF data.v.t # "map" THEN JsonValue(data.v)
  ELSE IF m.ok THEN SerOk(<<P("{")>> \o m.out)
  ELSE SerErr(<<P("{")>> \o m.out, m.msg)

RECURSIVE UrlPairs(_, _)
\* serde_urlencoded::to_string: key=value pairs joined by "&"; a value that is
\* not a scalar is unsupported
UrlPairs(fields, i) ==
  IF i > Len(fields) THEN SerOk(<<>>)
  ELSE LET v    == fields[i].v
           rest == UrlPairs(fields, i + 1)
       IN IF v.t = "seq" THEN SerErr(<<>>, "unsupported value")
          ELSE IF v.t = "unserializable" THEN SerErr(<<>>, CustomSerError)
          ELSE IF ~rest.ok THEN rest
          ELSE SerOk((IF i > 1 THEN <<P("&")>> ELSE <<>>)
                     \o <<W(fields[i].k), P("="), W(v.s)>> \o rest.out)

\* mimetypes::serialize_urlencoded: the string is built first and written to
\* the buffer only when it could be built
serialize_urlencoded(data) == UrlPairs(data.v.items, 1)

\* a string that YAML would read as another scalar is quoted
YamlScalar(v) ==
  IF v.t = "bool" THEN W(v.s)
  ELSE IF v.s \in {"true", "false", "null"} THEN SQ(v.s) ELSE W(v.s)

RECURSIVE YamlItems(_, _)
YamlItems(elems, i) ==
  IF i > Len(elems) THEN <<>>
  ELSE <<P("-"), YamlScalar(elems[i]), P("\n")>> \o YamlItems(elems, i + 1)

RECURSIVE YamlEntries(_, _)
\* serde_yaml's block mapping, one line per field
YamlEntries(fields, i) ==
  IF i > Len(fields) THEN SerOk(<<>>)
  ELSE LET v    == fields[i].v
           rest == YamlEntries(fields, i + 1)
           line == IF v.t = "seq"
                   THEN <<W(fields[i].k), P(":"), P("\n")>> \o YamlItems(v.items, 1)
                   ELSE <<W(fields[i].k), P(":"), YamlScalar(v), P("\n")>>
       IN IF v.t = "unserializable" THEN SerErr(<<>>, CustomSerError)
          ELSE IF ~rest.ok THEN rest
          ELSE SerOk(line \o rest.out)

\* mimetypes::serialize_yaml
serialize_yaml(data) == YamlEntries(data.v.items, 1)

RECURSIVE XmlElements(_, _)
\* serde_xml_rs: one element per field; sequences are not supported
XmlElements(fields, i) ==
  IF i > Len(fields) THEN SerOk(<<>>)
  ELSE LET v    == fields[i].v
           rest == XmlElements(fields, i + 1)
           elem == <<Open(fields[i].k), W(v.s), Close(fields[i].k)>>
       IN IF v.t = "seq" THEN SerErr(<<>>, "unsupported operation: serialize_seq")
          ELSE IF v.t = "unserializable" THEN SerErr(<<Open(fields[i].k)>>, CustomSerError)
          ELSE IF ~rest.ok THEN SerErr(elem \o rest.out, rest.msg)
          ELSE SerOk(elem \o rest.out)

\* mimetypes::serialize_xml: the writer is streaming; the root element is
\* named after the type
serialize_xml(data) ==
  LET m == XmlElements(data.v.items, 1) IN
  IF m.ok THEN SerOk(<<Open(data.ty)>> \o m.out \o <<Close(data.ty)>>)
  ELSE SerErr(<<Open(data.ty)>> \o m.out, m.msg)

(***************************************************************************)
(* Target types of a decode: the T of AnyMedia<T>.                        *)
(***************************************************************************)
VNull == [t |-> "null", s |-> "", items |-> <<>>]

TestDataType == [name |-> "TestData", dynamic |-> FALSE,
                 fields |-> <<[k |-> "test", ty |-> "bool"]>>]
ValueType    == [name |-> "Value", dynamic |-> TRUE, fields |-> <<>>]

Targets == {TestDataType, ValueType}

\* serde_json::Map keeps its keys sorted; the keys of the model in that order
KeyOrder == <<"key", "path", "routes", "test">>
Rank(k) == IF \E i \in 1..Len(KeyOrder) : KeyOrder[i] = k
           THEN CHOOSE i \in 1..Len(KeyOrder) : KeyOrder[i] = k
           ELSE Len(KeyOrder) + 1

\* BTreeMap::insert: replaces the entry of an equal key, keeps the order
MapInsert(fields, k, v) ==
  LET others == SelectSeq(fields, LAMBDA f : f.k # k)
      before == SelectSeq(others, LAMBDA f : Rank(f.k) < Rank(k))
      after  == SelectSeq(others, LAMBDA f : Rank(f.k) >= Rank(k))
  IN before \o <<Field(k, v)>> \o after

HasKey(fields, k) == \E i \in 1..Len(fields) : fields[i].k = k
FieldOf(fields, k) == fields[CHOOSE i \in 1..Len(fields) : fields[i].k = k]

(***************************************************************************)
(* Deserializers.  An error has the codec that raised it, serde_json's    *)
(* category (Syntax, Eof, Data; "" for the other codecs), the path        *)
(* serde_path_to_error tracked, and the codec's message.                  *)
(***************************************************************************)
Seg(key) == [key |-> key, idx |-> -1]
Idx(i)   == [key |-> "", idx |-> i]

EOFTok == [q |-> "eof", s |-> ""]
At(toks, i) == IF i >= 1 /\ i <= Len(toks) THEN toks[i] ELSE EOFTok

POk(val, next) ==
  [ok |-> TRUE, val |-> val, next |-> next, cat |-> "", path |-> <<>>, msg |-> ""]
PErr(cat, path, msg) ==
  [ok |-> FALSE, val |-> VNull, next |-> 0, cat |-> cat, path |-> path, msg |-> msg]
\* an error raised below a map key or a sequence index
Under(seg, r) == PErr(r.cat, <<seg>> \o r.path, r.msg)

\* what the first byte of a JSON value announces
JsonKind(tok) ==
  IF tok.q = "eof" THEN "eof"
  ELSE IF tok.q = "word" /\ tok.s \in {"true", "false"} THEN "bool"
  ELSE IF tok.q = "word" /\ tok.s = "null" THEN "null"
  ELSE IF tok.q = "dq" THEN "string"
  ELSE IF tok = P("[") THEN "seq"
  ELSE IF tok = P("{") THEN "map"
  ELSE "invalid"

\* a field of a derived struct: deserialize_bool, deserialize_string
JsonTyped(toks, i, ty) ==
  LET tok == At(toks, i)
      k   == JsonKind(tok)
  IN IF k = "eof" THEN PErr("Eof", <<>>, "EOF while parsing a value")
     ELSE IF k = "invalid" THEN PErr("Syntax", <<>>, "expected value")
     ELSE IF ty = "bool" /\ k = "bool" THEN POk(VBool(tok.s), i + 1)
     ELSE IF ty = "str" /\ k = "string" THEN POk(VStr(tok.s), i + 1)
     ELSE PErr("Data", <<>>, "invalid type")

SchemaHas(T, k) == \E j \in 1..Len(T.fields) : T.fields[j].k = k
SchemaTy(T, k) == T.fields[CHOOSE j \in 1..Len(T.fields) : T.fields[j].k = k].ty

RECURSIVE JsonAny(_, _), JsonArrayRest(_, _, _, _), JsonObjectRest(_, _, _, _, _)

\* deserialize_any: serde_json::Value, and the value of an ignored key
JsonAny(toks, i) ==
  LET tok == At(toks, i)
      k   == JsonKind(tok)
  IN IF k = "eof" THEN PErr("Eof", <<>>, "EOF while parsing a value")
     ELSE IF k = "bool" THEN POk(VBool(tok.s), i + 1)
     ELSE IF k = "null" THEN POk(VNull, i + 1)
     ELSE IF k = "string" THEN POk(VStr(tok.s), i + 1)
     ELSE IF k = "seq" THEN JsonArrayRest(toks, i + 1, <<>>, TRUE)
     ELSE IF k = "map" THEN JsonObjectRest(toks, i + 1, <<>>, TRUE, ValueType)
     ELSE PErr("Syntax", <<>>, "expected value")

\* SeqAccess::next_element_seed until the closing bracket
JsonArrayRest(toks, i, acc, first) ==
  LET tok == At(toks, i) IN
  IF tok = P("]") THEN POk(VSeq(acc), i + 1)
  ELSE IF tok.q = "eof" THEN PErr("Eof", <<>>, "EOF while parsing a list")
  ELSE IF ~first /\ tok # P(",") THEN PErr("Syntax", <<>>, "expected comma or closing bracket")
  ELSE LET at == IF first THEN i ELSE i + 1 IN
       IF ~first /\ At(toks, at) = P("]") THEN PErr("Syntax", <<>>, "trailing comma")
       ELSE LET e == JsonAny(toks, at) IN
            IF ~e.ok THEN Under(Idx(Len(acc)), e)
            ELSE JsonArrayRest(toks, e.next, Append(acc, e.val), FALSE)

\* MapAccess::next_key_seed and next_value_seed until the closing brace; for
\* a derived struct a known key is read by its type, a repeated key is an
\* error, an unknown key is skipped, and a field never seen is missing
JsonObjectRest(toks, i, acc, first, T) ==
  LET tok == At(toks, i) IN
  IF tok = P("}")
  THEN IF T.dynamic THEN POk(VMap(acc), i + 1)
       ELSE IF \E j \in 1..Len(T.fields) : ~HasKey(acc, T.fields[j].k)
         THEN PErr("Data", <<>>, "missing field")
       ELSE POk(VMap([j \in 1..Len(T.fields) |-> FieldOf(acc, T.fields[j].k)]), i + 1)
  ELSE IF tok.q = "eof" THEN PErr("Eof", <<>>, "EOF while parsing an object")
  ELSE IF ~first /\ tok # P(",") THEN PErr("Syntax", <<>>, "expected comma or closing brace")
  ELSE LET at  == IF first THEN i ELSE i + 1
           key == At(toks, at)
       IN IF key.q = "eof" THEN PErr("Eof", <<>>, "EOF while parsing a value")
          ELSE IF key = P("}") THEN PErr("Syntax", <<>>, "trailing comma")
          ELSE IF key.q # "dq" THEN PErr("Syntax", <<>>, "key must be a string")
          ELSE IF ~T.dynamic /\ SchemaHas(T, key.s) /\ HasKey(acc, key.s)
            THEN PErr("Data", <<>>, "duplicate field")
          ELSE IF At(toks, at + 1).q = "eof"
            THEN PErr("Eof", <<>>, "EOF while parsing an object")
          ELSE IF At(toks, at + 1) # P(":") THEN PErr("Syntax", <<>>, "expected colon")
          ELSE LET v == IF ~T.dynamic /\ SchemaHas(T, key.s)
                        THEN JsonTyped(toks, at + 2, SchemaTy(T, key.s))
                        ELSE JsonAny(toks, at + 2)
               IN IF ~v.ok THEN Under(Seg(key.s), v)
                  ELSE IF T.dynamic
                    THEN JsonObjectRest(toks, v.next, MapInsert(acc, key.s, v.val), FALSE, T)
                  ELSE IF SchemaHas(T, key.s)
                    THEN JsonObjectRest(toks, v.next, Append(acc, Field(key.s, v.val)), FALSE, T)
                  ELSE JsonObjectRest(toks, v.next, acc, FALSE, T)

RECURSIVE JsonStructSeq(_, _, _, _)
\* a derived struct read from an array: the fields in declaration order
JsonStructSeq(toks, i, acc, T) ==
  LET j   == Len(acc) + 1
      tok == At(toks, i)
  IN IF j > Len(T.fields)
     THEN IF tok = P("]") THEN POk(VMap(acc), i + 1)
          ELSE IF tok.q = "eof" THEN PErr("Eof", <<>>, "EOF while parsing a list")
          ELSE PErr("Syntax", <<>>, "trailing characters")
     ELSE IF tok = P("]") THEN PErr("Data", <<>>, "invalid length")
     ELSE IF tok.q = "eof" THEN PErr("Eof", <<>>, "EOF while parsing a list")
     ELSE IF j > 1 /\ tok # P(",") THEN PErr("Syntax", <<>>, "expected comma or closing bracket")
     ELSE LET at == IF j = 1 THEN i ELSE i + 1 IN
          IF j > 1 /\ At(toks, at) = P("]") THEN PErr("Syntax", <<>>, "trailing comma")
          ELSE LET e == JsonTyped(toks, at, T.fields[j].ty) IN
               IF ~e.ok THEN Under(Seg(T.fields[j].k), e)
               ELSE JsonStructSeq(toks, e.next, Append(acc, Field(T.fields[j].k, e.val)), T)

\* T::deserialize on a serde_json deserializer
JsonRoot(toks, T) ==
  LET k == JsonKind(At(toks, 1)) IN
  IF T.dynamic THEN JsonAny(toks, 1)
  ELSE IF k = "eof" THEN PErr("Eof", <<>>, "EOF while parsing a value")
  ELSE IF k = "map" THEN JsonObjectRest(toks, 2, <<>>, TRUE, T)
  ELSE IF k = "seq" THEN JsonStructSeq(toks, 2, <<>>, T)
  ELSE IF k = "invalid" THEN PErr("Syntax", <<>>, "expected value")
  ELSE PErr("Data", <<>>, "invalid type")

NoData == Data("", VNull)
NoErr  == [codec |-> "", cat |-> "", path |-> <<>>, msg |-> ""]
DeOk(ty, v) == [ok |-> TRUE, data |-> Data(ty, v), err |-> NoErr]
DeErr(codec, r) ==
  [ok |-> FALSE, data |-> NoData,
   err |-> [codec |-> codec, cat |-> r.cat, path |-> r.path, msg |-> r.msg]]

\* mimetypes::deserialize_json: the value is read from the start of the
\* slice and Deserializer::end is not called, so what follows it is not read
deserialize_json(bytes, T) ==
  LET r == JsonRoot(bytes, T) IN
  IF r.ok THEN DeOk(T.name, r.val) ELSE DeErr("Json", r)

\* the characters of a token, and of a run of tokens
TokText(tok) ==
  IF tok.q = "dq" THEN "\"" \o tok.s \o "\""
  ELSE IF tok.q = "sq" THEN "'" \o tok.s \o "'"
  ELSE IF tok.q = "open" THEN "<" \o tok.s \o ">"
  ELSE IF tok.q = "close" THEN "</" \o tok.s \o ">"
  ELSE tok.s

RECURSIVE Text(_)
Text(toks) == IF toks = <<>> THEN "" ELSE TokText(Head(toks)) \o Text(Tail(toks))

\* position of the first token equal to sep, Len + 1 when there is none
FirstAt(toks, sep) ==
  IF \E i \in 1..Len(toks) : toks[i] = sep
  THEN CHOOSE i \in 1..Len(toks) : toks[i] = sep /\ \A j \in 1..(i - 1) : toks[j] # sep
  ELSE Len(toks) + 1

RECURSIVE UrlParse(_)
\* form_urlencoded::parse: the pairs between "&", each split at its first
\* "="; an empty run between two "&" is skipped
UrlParse(toks) ==
  IF toks = <<>> THEN <<>>
  ELSE LET amp  == FirstAt(toks, P("&"))
           seg  == SubSeq(toks, 1, amp - 1)
           rest == UrlParse(SubSeq(toks, amp + 1, Len(toks)))
           eq   == FirstAt(seg, P("="))
       IN IF seg = <<>> THEN rest
          ELSE <<[k |-> Text(SubSeq(seg, 1, eq - 1)),
                  v |-> Text(SubSeq(seg, eq + 1, Len(seg)))]>> \o rest

RECURSIVE UrlVisit(_, _, _, _)
\* the visitor of T over the pairs: a derived struct reads its fields by
\* type, serde_json::Value takes every value as a string
UrlVisit(pairs, i, acc, T) ==
  IF i > Len(pairs)
  THEN IF T.dynamic THEN POk(VMap(acc), i)
       ELSE IF \E j \in 1..Len(T.fields) : ~HasKey(acc, T.fields[j].k)
         THEN PErr("", <<>>, "missing field")
       ELSE POk(VMap([j \in 1..Len(T.fields) |-> FieldOf(acc, T.fields[j].k)]), i)
  ELSE LET k == pairs[i].k
           v == pairs[i].v
       IN IF T.dynamic THEN UrlVisit(pairs, i + 1, MapInsert(acc, k, VStr(v)), T)
          ELSE IF ~SchemaHas(T, k) THEN UrlVisit(pairs, i + 1, acc, T)
          ELSE IF HasKey(acc, k) THEN PErr("", <<>>, "duplicate field")
          ELSE IF SchemaTy(T, k) = "bool" /\ v \notin {"true", "false"}
            THEN PErr("", <<>>, "provided string was not true or false")
          ELSE UrlVisit(pairs, i + 1,
                        Append(acc, Field(k, IF SchemaTy(T, k) = "bool"
                                             THEN VBool(v) ELSE VStr(v))), T)

\* mimetypes::deserialize_urlencoded
deserialize_urlencoded(bytes, T) ==
  LET r == UrlVisit(UrlParse(bytes), 1, <<>>, T) IN
  IF r.ok THEN DeOk(T.name, r.val) ELSE DeErr("UrlEncoded", r)

\* a YAML scalar as the event the loader emits for it: quoted scalars and plain
\* scalars other than true, false and null are strings
YamlScalarEvent(tok) ==
  IF tok.q = "sq" THEN DQ(tok.s)
  ELSE IF tok.q = "word" /\ tok.s \notin {"true", "false", "null"} THEN DQ(tok.s)
  ELSE tok

IsYamlScalar(tok) == tok.q \in {"word", "sq", "dq"}

LoadOk(events) == [ok |-> TRUE, events |-> events]
LoadErr == [ok |-> FALSE, events |-> <<>>]

RECURSIVE YamlBlockItems(_, _, _)
\* the "- item" lines of a block sequence from position i on
YamlBlockItems(toks, i, first) ==
  IF At(toks, i) # P("-") THEN [ok |-> TRUE, events |-> <<>>, next |-> i]
  ELSE IF ~IsYamlScalar(At(toks, i + 1)) \/ At(toks, i + 2) # P("\n")
    THEN [ok |-> FALSE, events |-> <<>>, next |-> i]
  ELSE LET rest == YamlBlockItems(toks, i + 3, FALSE) IN
       [ok |-> rest.ok,
        events |-> (IF first THEN <<>> ELSE <<P(",")>>)
                   \o <<YamlScalarEvent(At(toks, i + 1))>> \o rest.events,
        next |-> rest.next]

RECURSIVE YamlBlockEntries(_, _, _)
\* the "key: value" lines of a block mapping from position i on
YamlBlockEntries(toks, i, first) ==
  IF i > Len(toks) THEN LoadOk(<<P("}")>>)
  ELSE IF ~IsYamlScalar(At(toks, i)) \/ At(toks, i + 1) # P(":") THEN LoadErr
  ELSE LET head == (IF first THEN <<>> ELSE <<P(",")>>)
                   \o <<DQ(At(toks, i).s), P(":")>>
       IN IF At(toks, i + 2) = P("\n")
          THEN LET items == YamlBlockItems(toks, i + 3, TRUE)
                   rest  == YamlBlockEntries(toks, items.next, FALSE)
               IN IF ~items.ok \/ items.events = <<>> \/ ~rest.ok THEN LoadErr
                  ELSE LoadOk(head \o <<P("[")>> \o items.events \o <<P("]")>>
                              \o rest.events)
          ELSE IF ~IsYamlScalar(At(toks, i + 2)) \/ At(toks, i + 3) # P("\n")
            THEN LoadErr
          ELSE LET rest == YamlBlockEntries(toks, i + 4, FALSE) IN
               IF ~rest.ok THEN LoadErr
               ELSE LoadOk(head \o <<YamlScalarEvent(At(toks, i + 2))>> \o rest.events)

\* the loader of serde_yaml: the whole document is parsed into events before
\* any value is built.  The events are written in flow style: a flow
\* document is its own events once its scalars are resolved, a block mapping
\* is rewritten, an empty document is one null, anything else on one line
\* is a single plain scalar.
YamlLoad(bytes) ==
  IF bytes = <<>> THEN LoadOk(<<W("null")>>)
  ELSE IF bytes[1] \in {P("{"), P("[")}
    THEN LET events == [i \in 1..Len(bytes) |->
                          IF IsYamlScalar(bytes[i]) THEN YamlScalarEvent(bytes[i])
                          ELSE bytes[i]]
             keyed  == [i \in 1..Len(bytes) |->
                          IF IsYamlScalar(bytes[i]) /\ At(bytes, i + 1) = P(":")
                          THEN DQ(bytes[i].s) ELSE events[i]]
             r      == JsonAny(keyed, 1)
         IN IF r.ok /\ r.next = Len(bytes) + 1 THEN LoadOk(keyed) ELSE LoadErr
  ELSE IF IsYamlScalar(bytes[1]) /\ At(bytes, 2) = P(":")
    THEN LET r == YamlBlockEntries(bytes, 1, TRUE) IN
         IF r.ok THEN LoadOk(<<P("{")>> \o r.events) ELSE LoadErr
  ELSE IF Len(bytes) = 1 /\ IsYamlScalar(bytes[1])
    THEN LoadOk(<<YamlScalarEvent(bytes[1])>>)
  ELSE LoadOk(<<DQ(Text(bytes))>>)

\* mimetypes::deserialize_yaml: the visitors of T walk the events as they
\* walk a JSON text
deserialize_yaml(bytes, T) ==
  LET l == YamlLoad(bytes)
      r == JsonRoot(l.events, T)
  IN IF ~l.ok THEN DeErr("Yaml", PErr("", <<>>, "could not parse the document"))
     ELSE IF r.ok THEN DeOk(T.name, r.val)
     ELSE DeErr("Yaml", PErr("", r.path, r.msg))

(***************************************************************************)
(* Rejections and responses.                                               *)
(***************************************************************************)
IndexText(i) == IF i = 0 THEN "[0]" ELSE IF i = 1 THEN "[1]" ELSE "[n]"
SegText(seg) == IF seg.idx >= 0 THEN IndexText(seg.idx) ELSE seg.key

RECURSIVE PathText(_)
\* <serde_path_to_error::Path as Display>::fmt
PathText(path) ==
  IF path = <<>> THEN ""
  ELSE IF Len(path) = 1 THEN SegText(path[1])
  ELSE SegText(path[1]) \o (IF path[2].idx >= 0 THEN "" ELSE ".")
       \o PathText(Tail(path))

\* Display of the codec's error: serde_path_to_error puts the path first
ErrText(err) ==
  IF err.path = <<>> THEN err.msg ELSE PathText(err.path) \o ": " \o err.msg

NoRejection == [variant |-> "", err |-> NoErr]
Rejection(variant, err) == [variant |-> variant, err |-> err]

\* axum's BytesRejection, raised when the body cannot be buffered
TransportErr ==
  [codec |-> "", cat |-> "", path |-> <<>>, msg |-> "Failed to buffer the request body"]

\* the #[error(...)] texts of AnyMediaRejection
RejectionText(r) ==
  IF r.variant = "JsonDataError"
    THEN "Failed to deserialize the JSON body into the target type: " \o ErrText(r.err)
  ELSE IF r.variant = "JsonSyntaxError"
    THEN "Failed to parse the request body as JSON: " \o ErrText(r.err)
  ELSE IF r.variant = "UrlEncodedError"
    THEN "Failed to parse the request body as form urlencoded: " \o ErrText(r.err)
  ELSE IF r.variant = "YamlDataError"
    THEN "Failed to deserialize the yaml body into the target type: " \o ErrText(r.err)
  ELSE ErrText(r.err)

\* a match that takes every serde_json error for a syntax error
Classify_DataAsSyntax(err) ==
  IF err.codec = "Json"
  THEN [panic |-> "", rejection |-> Rejection("JsonSyntaxError", err)]
  ELSE IF err.codec = "UrlEncoded"
    THEN [panic |-> "", rejection |-> Rejection("UrlEncodedError", err)]
  ELSE [panic |-> "unimplemented", rejection |-> NoRejection]

\* the match on the error of from_request: a rejection, or a panic
Classify(err) ==
  IF err.codec = "Json"
  THEN IF err.cat = "Data"
         THEN [panic |-> "", rejection |-> Rejection("JsonDataError", err)]
       ELSE IF err.cat \in {"Syntax", "Eof"}
         THEN [panic |-> "", rejection |-> Rejection("JsonSyntaxError", err)]
       ELSE [panic |-> "unreachable", rejection |-> NoRejection]
  ELSE IF err.codec = "UrlEncoded"
    THEN [panic |-> "", rejection |-> Rejection("UrlEncodedError", err)]
  ELSE [panic |-> "unimplemented", rejection |-> NoRejection]

BAD_REQUEST == 400
INTERNAL_SERVER_ERROR == 500
OK == 200

\* mime::TEXT_PLAIN_UTF_8.as_ref() and mime::UTF_8.to_string()
TEXT_PLAIN_UTF_8 == <<"text", "/", "plain", ";", " ", "charset", "=", "utf-8">>
UTF_8 == <<"utf-8">>

NoResponse == [status |-> 0, contentType |-> <<>>, body |-> <<>>]
Response(status, contentType, body) ==
  [status |-> status, contentType |-> contentType, body |-> body]

\* a rejection answered as a server error
RejectionResponse_ServerError(r) ==
  Response(INTERNAL_SERVER_ERROR, UTF_8, <<W(RejectionText(r))>>)

\* <AnyMediaRejection as IntoResponse>::into_response
RejectionResponse(r) == Response(BAD_REQUEST, UTF_8, <<W(RejectionText(r))>>)

\* the serializer into_response calls for a codec
Serialize(codec, data) ==
  IF codec = "UrlEncoded" THEN serialize_urlencoded(data)
  ELSE IF codec = "Yaml" THEN serialize_yaml(data)
  ELSE IF codec = "Xml" THEN serialize_xml(data)
  ELSE serialize_json(data)

\* a from_request that tries the JSON deserializer when the deserializer of
\* the codec has failed
Deserialize_JsonFallback(codec, bytes, T) ==
  LET r == IF codec = "UrlEncoded" THEN deserialize_urlencoded(bytes, T)
           ELSE IF codec = "Yaml" THEN deserialize_yaml(bytes, T)
           ELSE deserialize_json(bytes, T)
  IN IF r.ok THEN r ELSE deserialize_json(bytes, T)

\* the deserializer from_request calls for a codec
Deserialize(codec, bytes, T) ==
  IF codec = "UrlEncoded" THEN deserialize_urlencoded(bytes, T)
  ELSE IF codec = "Yaml" THEN deserialize_yaml(bytes, T)
  ELSE deserialize_json(bytes, T)

SerializerName(codec) ==
  IF codec = "UrlEncoded" THEN "serialize_urlencoded"
  ELSE IF codec = "Yaml" THEN "serialize_yaml"
  ELSE IF codec = "Xml" THEN "serialize_xml"
  ELSE "serialize_json"

DeserializerName(codec) ==
  IF codec = "UrlEncoded" THEN "deserialize_urlencoded"
  ELSE IF codec = "Yaml" THEN "deserialize_yaml"
  ELSE "deserialize_json"

\* an into_response that names the MIME type of the fallback codec
EncodeResponse_JsonType(m, result, buffer) ==
  IF ~result.ok
  THEN Response(INTERNAL_SERVER_ERROR, TEXT_PLAIN_UTF_8, <<W(result.msg)>>)
  ELSE Response(OK, MimeToString(APPLICATION_JSON), buffer)

\* an into_response that sends what the serializer wrote before it failed
EncodeResponse_Partial(m, result, buffer) ==
  IF ~result.ok
  THEN Response(INTERNAL_SERVER_ERROR, MimeToString(m), buffer)
  ELSE Response(OK, MimeToString(m), buffer)

\* the end of <AnyMediaIntoResponse as IntoResponse>::into_response: the
\* response for the mime, the serializer's result and the buffer
EncodeResponse(m, result, buffer) ==
  IF ~result.ok
  THEN Response(INTERNAL_SERVER_ERROR, TEXT_PLAIN_UTF_8, <<W(result.msg)>>)
  ELSE Response(OK, MimeToString(m), buffer)

(***************************************************************************)
(* Request bodies: what the serializers produce, and malformed texts.     *)
(***************************************************************************)
Codecs == {"Json", "UrlEncoded", "Yaml", "Xml"}

MalformedBodies ==
  { <<>>,
    <<P("{"), SQ("test"), P(":"), W("true"), P("}")>>,
    <<P("{"), DQ("test"), P(":"), DQ("notabool"), P("}")>>,
    <<P("{"), DQ("test"), P(":"), W("true")>>,
    <<P("{"), DQ("test"), P(":"), W("true"), P("}"), P("}")>>,
    <<P("{"), DQ("test"), P(":"), W("true"), P(","), P("}")>>,
    <<W("test"), P("="), W("notabool")>>,
    <<W("test"), P(":"), DQ("notabool"), P("\n")>> }

Bodies ==
  MalformedBodies
  \cup { Serialize(cv[1], cv[2]).out :
           cv \in { x \in Codecs \X Values : Serialize(x[1], x[2]).ok } }

\* Bytes::from_request: the buffered body, or a transport error
BodyResults == {[ok |-> TRUE, bytes |-> b] : b \in Bodies}
               \cup {[ok |-> FALSE, bytes |-> <<>>]}

TargetOf(ty) == IF ty = "Value" THEN ValueType ELSE TestDataType

(***************************************************************************)
(* The server and its client.                                              *)
(*   features    the cargo features the crate is compiled with            *)
(*   pc          where the request in progress stands                     *)
(*   wire        a response the client sends back as its next request     *)
(*   sent        the value that response was encoded from                 *)
(*   header      the Content-Type header from_request read, until the     *)
(*               request is consumed at the await                         *)
(*   target      the T of the AnyMedia<T> being extracted                 *)
(*   mime        the Mime from_request holds across its await             *)
(*   bytes       the body from_request buffered                           *)
(*   extraction  what from_request returned                               *)
(*   hint        the text the handler gave to with_mime_str               *)
(*   out         the AnyMediaIntoResponse the handler returned            *)
(*   result      the serializer's result in into_response                 *)
(*   buf         the serialization buffer of into_response                *)
(*   calls       the codec functions run for the request in progress      *)
(*   resp        the response                                             *)
(*   panic       the panic that ended the request, "" when none           *)
(*   acceptOpt   the Accept header the Accept extractor read, and the     *)
(*               Option<String> it returned                               *)
(*   tasks       the calls of from_request and into_response that run at  *)
(*               the same time, each with its arguments and locals        *)
(*   bufs        the serialization buffers of those calls                 *)
(***************************************************************************)
AllFeatures == {"urlencoded", "yaml", "xml"}

VARIABLES features, pc, wire, sent, header, target, mime, bytes, extraction, hint,
          out, result, buf, calls, resp, panic, acceptOpt, tasks, bufs

vars == <<features, pc, wire, sent, header, target, mime, bytes, extraction, hint,
          out, result, buf, calls, resp, panic, acceptOpt, tasks, bufs>>

\* the state of the server that serves one request at a time, and the state
\* of the calls that run at the same time
reqVars == <<pc, wire, sent, header, target, mime, bytes, extraction, hint,
             out, result, buf, calls, resp, panic, acceptOpt>>
concVars == <<tasks, bufs>>

NoWire == [echo |-> FALSE, contentType |-> <<>>, body |-> <<>>]
NoTarget == [name |-> "", dynamic |-> FALSE, fields |-> <<>>]
NoExtraction == [state |-> "none", data |-> NoData, rejection |-> NoRejection]
NoOut == [data |-> NoData, mime |-> NoMime]
NoResult == [ok |-> TRUE, out |-> <<>>, msg |-> ""]

\* Option<String>: None
None == [some |-> FALSE, text |-> <<>>]
Some(text) == [some |-> TRUE, text |-> text]

\* an Accept extractor that hands on what parses as a MIME type only
AcceptOf_Parsed(h) ==
  IF ParseMime(HeaderStr(h)).ok THEN Some(LowerAll(h.text)) ELSE None

\* Accept::from_request_parts:
\* headers.get("accept").and_then(|h| h.to_str().ok().map(|s| s.to_owned()))
AcceptOf(h) == IF h.present /\ h.ascii THEN Some(h.text) ELSE None

NoAccept == [header |-> AbsentHeader, value |-> None]

\* the calls that run at the same time
Procs == 1..NumCalls

\* a call that has not been made
NoTask ==
  [kind |-> "none", at |-> "new", header |-> AbsentHeader, target |-> NoTarget,
   data |-> NoData, mime |-> NoMime, body |-> [ok |-> TRUE, bytes |-> <<>>],
   result |-> NoResult, resp |-> NoResponse, extraction |-> NoExtraction,
   panic |-> ""]

Fresh ==
  /\ header = AbsentHeader
  /\ target = NoTarget
  /\ mime = NoMime
  /\ bytes = <<>>
  /\ extraction = NoExtraction
  /\ hint = AbsentHeader
  /\ out = NoOut
  /\ result = NoResult
  /\ buf = <<>>
  /\ calls = <<>>
  /\ resp = NoResponse
  /\ panic = ""
  /\ acceptOpt = NoAccept

\* nothing of a served request stays in the server
Reset ==
  /\ header' = AbsentHeader
  /\ target' = NoTarget
  /\ mime' = NoMime
  /\ bytes' = <<>>
  /\ extraction' = NoExtraction
  /\ hint' = AbsentHeader
  /\ out' = NoOut
  /\ result' = NoResult
  /\ buf' = <<>>
  /\ calls' = <<>>
  /\ resp' = NoResponse
  /\ panic' = ""
  /\ acceptOpt' = NoAccept

Init ==
  /\ features \in SUBSET AllFeatures
  /\ pc = "idle"
  /\ wire = NoWire
  /\ sent = NoData
  /\ Fresh
  /\ tasks = [p \in Procs |-> NoTask]
  /\ bufs = [p \in Procs |-> <<>>]

\* AnyMedia::from_request up to its await: the Content-Type header is read
\* and parsed.  A request the client builds from a response carries that
\* response's Content-Type and is extracted into the type of the value sent.
FromRequestBegin(h, T) ==
  /\ pc = "idle"
  /\ wire.echo => h = TextHeader(wire.contentType) /\ T = TargetOf(sent.ty)
  /\ header' = h
  /\ mime' = RequestMime(h)
  /\ target' = T
  /\ pc' = "await_body"
  /\ UNCHANGED <<concVars, acceptOpt, features, wire, sent, bytes, extraction, hint, out, result, buf,
                 calls, resp, panic>>

\* a from_request that runs the deserializer of the mime before it looks at
\* the result of reading the body
FromRequestResume_DecodeFirst(body) ==
  /\ pc = "await_body"
  /\ ~body.ok
  /\ calls' = Append(calls, DeserializerName(DecodeCodec(mime, features)))
  /\ extraction' = [state |-> "err", data |-> NoData,
                    rejection |-> Rejection("BytesRejection", TransportErr)]
  /\ pc' = "rejected"
  /\ header' = AbsentHeader
  /\ wire' = NoWire
  /\ mime' = NoMime
  /\ UNCHANGED <<concVars, acceptOpt, features, sent, target, hint, out, result, buf, resp, bytes, panic>>

\* AnyMedia::from_request from its await on: the request is consumed, its
\* body arrives or fails, the deserializer of the mime runs, and its error is
\* matched
FromRequestResume(body) ==
  /\ pc = "await_body"
  /\ wire.echo /\ body.ok => body.bytes = wire.body
  /\ IF ~body.ok
     THEN /\ extraction' = [state |-> "err", data |-> NoData,
                            rejection |-> Rejection("BytesRejection", TransportErr)]
          /\ pc' = "rejected"
          /\ UNCHANGED <<bytes, calls, panic>>
     ELSE LET codec == DecodeCodec(mime, features)
              res   == Deserialize(codec, body.bytes, target)
              class == Classify(res.err)
          IN /\ bytes' = body.bytes
             /\ calls' = Append(calls, DeserializerName(codec))
             /\ IF res.ok
                THEN /\ extraction' = [state |-> "ok", data |-> res.data,
                                       rejection |-> NoRejection]
                     /\ pc' = "extracted"
                     /\ UNCHANGED panic
                ELSE IF class.panic # ""
                  THEN /\ panic' = class.panic
                       /\ pc' = "panicked"
                       /\ UNCHANGED extraction
                ELSE /\ extraction' = [state |-> "err", data |-> NoData,
                                       rejection |-> class.rejection]
                     /\ pc' = "rejected"
                     /\ UNCHANGED panic
  /\ header' = AbsentHeader
  /\ wire' = NoWire
  /\ mime' = NoMime
  /\ UNCHANGED <<concVars, acceptOpt, features, sent, target, hint, out, result, buf, resp>>

\* <AnyMediaRejection as IntoResponse>::into_response: the router answers a
\* rejected extraction without running the handler
RejectionIntoResponse ==
  /\ pc = "rejected"
  /\ resp' = RejectionResponse(extraction.rejection)
  /\ pc' = "responded"
  /\ UNCHANGED <<concVars, acceptOpt, features, wire, sent, header, target, mime, bytes, extraction, hint,
                 out, result, buf, calls, panic>>

\* a handler that takes the extracted value and answers with a text: the
\* field of the struct (the handler of the tests), or the Display of a
\* serde_json::Value, which is its JSON text
HandlerExtract ==
  /\ pc = "extracted"
  /\ resp' = Response(OK, TEXT_PLAIN_UTF_8,
                      IF target = TestDataType
                      THEN <<W(extraction.data.v.items[1].v.s)>>
                      ELSE <<W(Text(serialize_json(extraction.data).out))>>)
  /\ pc' = "responded"
  /\ extraction' = NoExtraction
  /\ bytes' = <<>>
  /\ UNCHANGED <<concVars, acceptOpt, features, wire, sent, header, target, mime, hint, out, result, buf,
                 calls, panic>>

\* a handler without extractor: AnyMedia(v).with_mime_str(accept)
HandlerWithMimeStr(v, accept) ==
  /\ pc = "idle"
  /\ ~wire.echo
  /\ hint' = accept
  /\ out' = [data |-> v, mime |-> WithMimeStr(HeaderStr(accept))]
  /\ pc' = "encode"
  /\ UNCHANGED <<concVars, acceptOpt, features, wire, sent, header, target, mime, bytes, extraction,
                 result, buf, calls, resp, panic>>

\* a handler without extractor: AnyMedia(v).with_mime(m)
HandlerWithMime(v, m) ==
  /\ pc = "idle"
  /\ ~wire.echo
  /\ m.ok
  /\ hint' = TextHeader(MimeToString(m))
  /\ out' = [data |-> v, mime |-> m]
  /\ pc' = "encode"
  /\ UNCHANGED <<concVars, acceptOpt, features, wire, sent, header, target, mime, bytes, extraction,
                 result, buf, calls, resp, panic>>

\* a handler without extractor that returns AnyMedia(v) itself:
\* <AnyMedia as IntoResponse>::into_response sets no mime
HandlerAnyMedia(v) ==
  /\ pc = "idle"
  /\ ~wire.echo
  /\ hint' = AbsentHeader
  /\ out' = [data |-> v, mime |-> NoMime]
  /\ pc' = "encode"
  /\ UNCHANGED <<concVars, acceptOpt, features, wire, sent, header, target, mime, bytes, extraction,
                 result, buf, calls, resp, panic>>

\* Accept::from_request_parts: the extractor of a handler that takes Accept
AcceptFromRequestParts(h) ==
  /\ pc = "idle"
  /\ ~wire.echo
  /\ acceptOpt' = [header |-> h, value |-> AcceptOf(h)]
  /\ pc' = "accepted"
  /\ UNCHANGED <<concVars, features, wire, sent, header, target, mime, bytes, extraction, hint,
                 out, result, buf, calls, resp, panic>>

\* a handler that takes Accept and returns AnyMedia(v, accept.into()): the
\* text is parsed in into_response, None and a text that does not parse are
\* no mime
HandlerAccept(v) ==
  /\ pc = "accepted"
  /\ hint' = IF acceptOpt.value.some THEN TextHeader(acceptOpt.value.text) ELSE AbsentHeader
  /\ out' = [data |-> v,
             mime |-> IF acceptOpt.value.some THEN WithMimeStr(acceptOpt.value.text)
                      ELSE NoMime]
  /\ acceptOpt' = NoAccept
  /\ pc' = "encode"
  /\ UNCHANGED <<concVars, features, wire, sent, header, target, mime, bytes, extraction,
                 result, buf, calls, resp, panic>>

\* <AnyMediaIntoResponse as IntoResponse>::into_response
IntoResponse ==
  /\ pc = "encode"
  /\ LET m     == ResponseMime(out.mime)
         codec == EncodeCodec(m, features)
         res   == Serialize(codec, out.data)
     IN /\ calls' = Append(calls, SerializerName(codec))
        /\ result' = res
        /\ buf' = res.out
        /\ resp' = EncodeResponse(m, res, res.out)
  /\ pc' = "responded"
  /\ UNCHANGED <<concVars, acceptOpt, features, wire, sent, header, target, mime, bytes, extraction, hint,
                 out, panic>>

\* the client is done with the request and the server is ready for another
ClientNext ==
  /\ pc \in {"responded", "panicked"}
  /\ pc' = "idle"
  /\ wire' = NoWire
  /\ sent' = NoData
  /\ Reset
  /\ UNCHANGED <<concVars, features>>

\* the client sends an encoded response back: its body as the request body,
\* its Content-Type as the request Content-Type
ClientEcho ==
  /\ pc = "responded"
  /\ out # NoOut
  /\ resp.status = OK
  /\ wire' = [echo |-> TRUE, contentType |-> resp.contentType, body |-> resp.body]
  /\ sent' = out.data
  /\ pc' = "idle"
  /\ Reset
  /\ UNCHANGED <<concVars, features>>

ParsedMimes == { ParseMime(t) : t \in { u \in MimeTexts : ParseMime(u).ok } }

\* the requests a client can send, by the route that serves them
Extract      == pc = "idle" /\ \E h \in Headers, T \in Targets : FromRequestBegin(h, T)
BodyArrives  == pc = "await_body" /\ \E body \in BodyResults : FromRequestResume(body)
WithMimeStr_ == pc = "idle" /\ \E v \in Values, accept \in Headers : HandlerWithMimeStr(v, accept)
WithMime_    == pc = "idle" /\ \E v \in Values, m \in ParsedMimes : HandlerWithMime(v, m)
AnyMedia_    == pc = "idle" /\ \E v \in Values : HandlerAnyMedia(v)
Accept_      == pc = "idle" /\ \E h \in Headers : AcceptFromRequestParts(h)
WithAccept_  == pc = "accepted" /\ \E v \in Values : HandlerAccept(v)

Next ==
  \/ Extract
  \/ BodyArrives
  \/ RejectionIntoResponse
  \/ HandlerExtract
  \/ WithMimeStr_
  \/ WithMime_
  \/ AnyMedia_
  \/ Accept_
  \/ WithAccept_
  \/ IntoResponse
  \/ ClientNext
  \/ ClientEcho

Spec == Init /\ [][Next]_vars

(***************************************************************************)
(* Calls that run at the same time.  The router runs from_request and     *)
(* into_response of different requests on different threads; a call has   *)
(* its arguments and its locals, and reads the features.  A call of       *)
(* into_response is taken statement by statement: the buffer is made, the *)
(* serializer writes to it, the response is built from it.                *)
(***************************************************************************)
\* the headers, values and bodies of the calls that run at the same time
ConcHeaders ==
  { AbsentHeader,
    TextHeader(<<"application", "/", "x-www-form-urlencoded">>),
    TextHeader(<<"application", "/", "yaml">>) }
ConcValues ==
  { Data("TestData", VMap(<<Field("test", VBool("true"))>>)),
    Data("FileRef", VMap(<<Field("path", VUnserializable)>>)) }
ConcBodies ==
  { [ok |-> TRUE, bytes |-> <<W("test"), P("="), W("true")>>],
    [ok |-> TRUE, bytes |-> <<P("{"), DQ("test"), P(":"), W("true"), P("}")>>],
    [ok |-> FALSE, bytes |-> <<>>] }

\* a buffer that every call of into_response shares
BufOf_Shared(p) == 1

\* let mut buf = BytesMut::with_capacity(128).writer(): the buffer of a call
\* is its own
BufOf(p) == p

\* AnyMedia::from_request up to its await, in call p
CallFromRequest(p, h, T) ==
  /\ tasks[p].at = "new"
  /\ tasks' = [tasks EXCEPT ![p] =
                 [@ EXCEPT !.kind = "decode", !.header = h, !.target = T,
                           !.mime = RequestMime(h), !.at = "await_body"]]
  /\ UNCHANGED <<features, reqVars, bufs>>

\* AnyMedia::from_request from its await on, in call p
CallFromRequestResume(p, body) ==
  /\ tasks[p].at = "await_body"
  /\ LET t     == tasks[p]
         res   == Deserialize(DecodeCodec(t.mime, features), body.bytes, t.target)
         class == Classify(res.err)
         rejected(r) == [state |-> "err", data |-> NoData, rejection |-> r]
     IN tasks' = [tasks EXCEPT ![p] =
          [@ EXCEPT !.body = body, !.at = "done",
             !.extraction =
                IF ~body.ok THEN rejected(Rejection("BytesRejection", TransportErr))
                ELSE IF res.ok
                  THEN [state |-> "ok", data |-> res.data, rejection |-> NoRejection]
                ELSE IF class.panic # "" THEN NoExtraction
                ELSE rejected(class.rejection),
             !.panic = IF body.ok /\ ~res.ok THEN class.panic ELSE ""]]
  /\ UNCHANGED <<features, reqVars, bufs>>

\* into_response in call p: the mime is resolved and the buffer is made
CallIntoResponse(p, v, h) ==
  /\ tasks[p].at = "new"
  /\ tasks' = [tasks EXCEPT ![p] =
                 [@ EXCEPT !.kind = "encode", !.header = h, !.data = v,
                           !.mime = ResponseMime(WithMimeStr(HeaderStr(h))),
                           !.at = "serialize"]]
  /\ bufs' = [bufs EXCEPT ![BufOf(p)] = <<>>]
  /\ UNCHANGED <<features, reqVars>>

\* into_response in call p: the serializer of the mime writes to the buffer
CallSerialize(p) ==
  /\ tasks[p].at = "serialize"
  /\ LET res == Serialize(EncodeCodec(tasks[p].mime, features), tasks[p].data)
     IN /\ tasks' = [tasks EXCEPT ![p] =
                       [@ EXCEPT !.result = [res EXCEPT !.out = <<>>],
                                 !.at = "respond"]]
        /\ bufs' = [bufs EXCEPT ![BufOf(p)] = @ \o res.out]
  /\ UNCHANGED <<features, reqVars>>

\* into_response in call p: the response is built and the buffer is given up
CallRespond(p) ==
  /\ tasks[p].at = "respond"
  /\ tasks' = [tasks EXCEPT ![p] =
                 [@ EXCEPT !.resp = EncodeResponse(tasks[p].mime, tasks[p].result,
                                                   bufs[BufOf(p)]),
                           !.at = "done"]]
  /\ bufs' = [bufs EXCEPT ![BufOf(p)] = <<>>]
  /\ UNCHANGED <<features, reqVars>>

Decode_     == \E p \in Procs, h \in ConcHeaders, T \in Targets : CallFromRequest(p, h, T)
DecodeBody_ == \E p \in Procs, body \in ConcBodies : CallFromRequestResume(p, body)
Encode_     == \E p \in Procs, v \in ConcValues, h \in ConcHeaders : CallIntoResponse(p, v, h)
Serialize_  == \E p \in Procs : CallSerialize(p)
Respond_    == \E p \in Procs : CallRespond(p)

NextConc ==
  \/ Decode_
  \/ DecodeBody_
  \/ Encode_
  \/ Serialize_
  \/ Respond_

\* the crate is built with no optional codec, or with all of them
InitConc == Init /\ features \in {{}, AllFeatures}

SpecConc == InitConc /\ [][NextConc]_vars

(***************************************************************************)
(* Properties.                                                             *)
(***************************************************************************)
\* a MIME text that is absent, empty or rejected by the parser
Unparsable(h) == ~ParseMime(HeaderStr(h)).ok

\* the step in which from_request runs a deserializer
Decodes == pc = "await_body" /\ calls' # calls

\* C1: a Content-Type header or a response hint that is absent, not text,
\* empty or not a MIME type resolves to the JSON codec: from_request runs
\* deserialize_json and nothing else, into_response runs serialize_json and
\* nothing else.
C1_UnparsableMimeIsJson ==
  [][ /\ (Decodes /\ Unparsable(header) => calls' = <<"deserialize_json">>)
      /\ (pc = "encode" /\ Unparsable(hint) => calls' = <<"serialize_json">>)
    ]_vars

\* a hint that is present but no MIME type was encoded as JSON
C1_Witness ==
  /\ pc = "responded"
  /\ hint.present /\ hint.text # <<>> /\ Unparsable(hint)
  /\ out # NoOut
  /\ calls = <<"serialize_json">>
  /\ resp.status = OK

\* the serializer of a name of the MIME table, "" when the name is not in
\* the table or its codec is not compiled in
TableSerializer(name, feats) ==
  IF name = <<"json">> THEN "serialize_json"
  ELSE IF name = <<"x-www-form-urlencoded">> /\ "urlencoded" \in feats
    THEN "serialize_urlencoded"
  ELSE IF name = <<"yaml">> /\ "yaml" \in feats THEN "serialize_yaml"
  ELSE IF name = <<"xml">> /\ "xml" \in feats THEN "serialize_xml"
  ELSE ""

\* the order of resolution: the exact subtype, then the suffix, then JSON
ExpectedSerializer(m, feats) ==
  IF Type_(m) # APPLICATION THEN "serialize_json"
  ELSE IF TableSerializer(Subtype(m), feats) # ""
    THEN TableSerializer(Subtype(m), feats)
  ELSE IF HasSuffix(m) /\ TableSerializer(Suffix(m), feats) # ""
    THEN TableSerializer(Suffix(m), feats)
  ELSE "serialize_json"

\* C2: for a hint that parses, into_response runs the serializer of the
\* exact (application, subtype) when there is one, else the serializer of
\* the (application, suffix) when there is one, else serialize_json; a type
\* other than application always runs serialize_json.
C2_EncodeOrder ==
  pc = "responded" /\ out # NoOut /\ out.mime.ok =>
    /\ calls = <<ExpectedSerializer(out.mime, features)>>
    /\ Type_(out.mime) # APPLICATION => calls = <<"serialize_json">>

\* application/yaml+xml with both codecs compiled in was encoded as YAML
C2_Witness ==
  /\ pc = "responded"
  /\ out.mime.ok
  /\ Subtype(out.mime) = <<"yaml">> /\ Suffix(out.mime) = <<"xml">>
  /\ {"yaml", "xml"} \subseteq features
  /\ calls = <<"serialize_yaml">>

\* C3: from_request resolves a MIME type to the same codec as into_response
\* does, suffix-only MIME types included, except that a MIME type that
\* resolves to Xml is decoded as JSON.
C3_DecodeResolvesAsEncode ==
  [][ Decodes =>
        LET e == EncodeCodec(mime, features) IN
        calls' = <<DeserializerName(IF e = "Xml" THEN "Json" ELSE e)>>
    ]_vars

\* the names of the MIME table
TableNames == { <<"json">>, <<"x-www-form-urlencoded">>, <<"yaml">>, <<"xml">> }

\* a MIME text that parses and whose type, subtype and suffix are all
\* outside the table, such as image/png
Unsupported(h) ==
  LET m == ParseMime(HeaderStr(h)) IN
  /\ m.ok
  /\ Type_(m) # APPLICATION
  /\ Subtype(m) \notin TableNames
  /\ Suffix(m) \notin TableNames

\* a body that is one JSON value and nothing else
IsJson(b) == JsonAny(b, 1).ok /\ JsonAny(b, 1).next = Len(b) + 1

\* C4: a MIME type whose type, subtype and suffix are all unsupported
\* resolves to JSON on both paths, and a body that is not JSON decoded under
\* it is rejected as a JSON syntax error, never extracted.
C4_UnsupportedMimeIsJson ==
  [][ /\ (Decodes /\ Unsupported(header) =>
            /\ calls' = <<"deserialize_json">>
            /\ ~IsJson(bytes') =>
                 /\ pc' = "rejected"
                 /\ extraction'.rejection.variant = "JsonSyntaxError")
      /\ (pc = "encode" /\ Unsupported(hint) => calls' = <<"serialize_json">>)
    ]_vars

\* the MIME types of the table, as the texts a response carries
TableMimes ==
  { <<"application", "/", n>> :
      n \in {"json", "x-www-form-urlencoded", "yaml", "xml"} }

\* the step in which from_request decodes a body that into_response encoded
\* under a MIME type of the table
DecodesEcho == Decodes /\ wire.echo /\ wire.contentType \in TableMimes

\* the codec the table gives a MIME text when the codec is compiled in
TableCodec(text, feats) ==
  IF text[3] = "x-www-form-urlencoded" /\ "urlencoded" \in feats THEN "UrlEncoded"
  ELSE IF text[3] = "yaml" /\ "yaml" \in feats THEN "Yaml"
  ELSE IF text[3] = "xml" /\ "xml" \in feats THEN "Xml"
  ELSE "Json"

\* C5 as stated: for each of JSON, UrlEncoded, Yaml and Xml, decoding what
\* was encoded under the codec's MIME type yields the original value.
C5_RoundTripEveryCodec ==
  [][ DecodesEcho => pc' = "extracted" /\ extraction'.data = sent ]_vars

\* C5: decoding what was encoded under the MIME type of JSON or Yaml yields
\* the original value, and so does UrlEncoded for a target with declared
\* field types; UrlEncoded into a dynamically typed target succeeds with
\* whatever the text holds, and what was encoded as Xml is decoded as JSON
\* and rejected as a syntax error.
C5_RoundTrip ==
  [][ DecodesEcho =>
        LET codec == TableCodec(wire.contentType, features) IN
        /\ codec \in {"Json", "Yaml"} =>
             pc' = "extracted" /\ extraction'.data = sent
        /\ codec = "UrlEncoded" /\ ~target.dynamic =>
             pc' = "extracted" /\ extraction'.data = sent
        /\ codec = "UrlEncoded" /\ target.dynamic => pc' = "extracted"
        /\ codec = "Xml" =>
             /\ pc' = "rejected"
             /\ extraction'.rejection.variant = "JsonSyntaxError"
    ]_vars

\* a value encoded as YAML came back as it was sent
C5_Witness ==
  /\ pc = "extracted"
  /\ sent \in Values
  /\ extraction.data = sent
  /\ calls = <<"deserialize_yaml">>

\* the variants of AnyMediaRejection
RejectionVariants ==
  {"JsonDataError", "JsonSyntaxError", "UrlEncodedError", "YamlDataError",
   "BytesRejection"}

\* C6: every failure of from_request is returned as a rejection and none
\* raises a panic; a failure of the YAML deserializer is returned as a
\* rejection that names a data error or a YAML error.
C6_FailureIsRejection ==
  /\ pc # "panicked"
  /\ panic = ""
  /\ pc = "rejected" =>
       /\ extraction.rejection.variant \in RejectionVariants
       /\ calls = <<"deserialize_yaml">> =>
            extraction.rejection.variant = "YamlDataError"

\* the bodies of two failures of the JSON deserializer
SingleQuotedKey == <<P("{"), SQ("test"), P(":"), W("true"), P("}")>>
StringForBool   == <<P("{"), DQ("test"), P(":"), DQ("notabool"), P("}")>>

\* from_request returned the error of the JSON deserializer
JsonFailed == extraction.state = "err" /\ extraction.rejection.err.codec = "Json"

\* C7: an error of the JSON deserializer of category Syntax or Eof is
\* rejected as JsonSyntaxError, one of category Data as JsonDataError with
\* the path of the field, and the Io arm of the match is never taken.
C7_JsonClassification ==
  /\ panic # "unreachable"
  /\ JsonFailed =>
       LET r == extraction.rejection IN
       /\ r.err.cat \in {"Syntax", "Eof", "Data"}
       /\ r.err.cat \in {"Syntax", "Eof"} <=> r.variant = "JsonSyntaxError"
       /\ r.err.cat = "Data" <=> r.variant = "JsonDataError"
       /\ bytes = SingleQuotedKey => r.variant = "JsonSyntaxError"
       /\ bytes = <<>> => r.variant = "JsonSyntaxError" /\ r.err.cat = "Eof"
       /\ bytes = StringForBool /\ target = TestDataType =>
            r.variant = "JsonDataError" /\ r.err.path = <<Seg("test")>>

\* a string where the struct declares a bool was rejected as a data error
\* at the path of the field
C7_Witness ==
  /\ pc = "rejected"
  /\ JsonFailed
  /\ bytes = StringForBool
  /\ extraction.rejection.variant = "JsonDataError"
  /\ extraction.rejection.err.path = <<Seg("test")>>

\* the response to a request whose extraction was rejected
Rejected == pc = "responded" /\ extraction.state = "err"

\* C8: a rejected extraction is answered with 400 Bad Request whatever the
\* variant, the handler does not run and its output is never the response.
C8_RejectionIsBadRequest ==
  /\ pc = "rejected" => resp = NoResponse /\ out = NoOut
  /\ Rejected =>
       /\ resp.status = BAD_REQUEST
       /\ out = NoOut /\ result = NoResult
       /\ \A d \in DOMAIN calls : calls[d] = "deserialize_json"
                                    \/ calls[d] = "deserialize_urlencoded"
                                    \/ calls[d] = "deserialize_yaml"

\* a body that is not form urlencoded data for the struct was answered 400
C8_Witness ==
  /\ Rejected
  /\ extraction.rejection.variant = "UrlEncodedError"
  /\ resp.status = BAD_REQUEST

\* the kind of error a rejection names in its text
ErrorKind(variant) ==
  IF variant = "JsonDataError"
    THEN "Failed to deserialize the JSON body into the target type"
  ELSE IF variant = "JsonSyntaxError"
    THEN "Failed to parse the request body as JSON"
  ELSE IF variant = "UrlEncodedError"
    THEN "Failed to parse the request body as form urlencoded"
  ELSE "Failed to deserialize the yaml body into the target type"

\* C9: the response to a rejection has the Content-Type
\* text/plain; charset=utf-8, and its body is the text of the rejection, the
\* kind of error followed by ": " and the message of the underlying error.
C9_RejectionIsPlainText ==
  Rejected =>
    /\ resp.contentType = TEXT_PLAIN_UTF_8
    /\ extraction.rejection.variant # "BytesRejection" =>
         resp.body = <<W(ErrorKind(extraction.rejection.variant) \o ": "
                         \o ErrText(extraction.rejection.err))>>

\* the response to a value whose serializer failed
EncodeFailed == pc = "responded" /\ out # NoOut /\ ~result.ok

\* C10: when the serializer fails, the response is 500 Internal Server
\* Error with the Content-Type text/plain; charset=utf-8 and the message of
\* the error as its body: neither the MIME type of the hint nor what the
\* serializer had written to the buffer is sent.
C10_SerializeFailure ==
  EncodeFailed =>
    /\ resp.status = INTERNAL_SERVER_ERROR
    /\ resp.contentType = TEXT_PLAIN_UTF_8
    /\ resp.body = <<W(result.msg)>>
    /\ resp.contentType # MimeToString(ResponseMime(out.mime))
    /\ buf # <<>> => resp.body # buf

\* the JSON serializer failed after it had written the start of the object
C10_Witness ==
  /\ EncodeFailed
  /\ calls = <<"serialize_json">>
  /\ buf # <<>>
  /\ resp.status = INTERNAL_SERVER_ERROR

\* the response to a value whose serializer succeeded
EncodeSucceeded == pc = "responded" /\ out # NoOut /\ result.ok

\* the text of application/json
JsonMimeText == <<"application", "/", "json">>

\* C11: on a successful encode the Content-Type is the text of the MIME type
\* resolved from the hint, not the MIME type of the codec that wrote the
\* body: application/json when the hint is absent or does not parse, else
\* the hint as the parser holds it (in lower case), also when the codec was
\* found by the suffix or by the JSON fallback; the hint
\* application/x-www-form-urlencoded with {test: true} gives that
\* Content-Type and the body test=true.
C11_ContentTypeIsResolvedMime ==
  EncodeSucceeded =>
    /\ resp.status = OK
    /\ resp.body = buf
    /\ Unparsable(hint) => resp.contentType = JsonMimeText
    /\ ~Unparsable(hint) => resp.contentType = LowerAll(hint.text)
    /\ ~Unparsable(hint) /\ "APPLICATION" \notin { hint.text[i] : i \in DOMAIN hint.text }
         => resp.contentType = hint.text
    /\ /\ hint.text = <<"application", "/", "x-www-form-urlencoded">>
       /\ "urlencoded" \in features
       /\ out.data = Data("TestData", VMap(<<Field("test", VBool("true"))>>))
       => resp.body = <<W("test"), P("="), W("true")>>

\* application/vnd.x+json, encoded as JSON through its suffix, was answered
\* with that Content-Type
C11_Witness ==
  /\ EncodeSucceeded
  /\ hint.text = <<"application", "/", "vnd.x", "+", "json">>
  /\ calls = <<"serialize_json">>
  /\ resp.contentType = hint.text

\* the body of the request cannot be read
BodyFails == FromRequestResume([ok |-> FALSE, bytes |-> <<>>])

\* C12: when reading the body fails, from_request returns the BytesRejection
\* at once: whatever the Content-Type header is, the request can fail this
\* way, and the step that returns the BytesRejection is the step that runs
\* no deserializer and buffers no body.
C12_BodyErrorRunsNoCodec ==
  /\ [](pc = "await_body" => ENABLED BodyFails)
  /\ [][ pc = "await_body" =>
           /\ extraction'.rejection.variant = "BytesRejection" <=> calls' = <<>>
           /\ extraction'.rejection.variant = "BytesRejection" =>
                /\ pc' = "rejected"
                /\ extraction'.state = "err"
                /\ bytes' = <<>>
       ]_vars

\* a request into TestData was rejected for its body before any
\* deserializer ran
C12_Witness ==
  /\ pc = "rejected"
  /\ extraction.rejection.variant = "BytesRejection"
  /\ target = TestDataType
  /\ calls = <<>>
  /\ bytes = <<>>

\* C13: the Accept extractor never rejects: from every request that is not
\* for the body extractor it can return for every Accept header, and it
\* returns None when the header is absent or not text and the text of the
\* header as it is, parsed or not, when it is text.
C13_AcceptNeverRejects ==
  /\ [](pc = "idle" /\ ~wire.echo => \A h \in Headers : ENABLED AcceptFromRequestParts(h))
  /\ [](pc = "accepted" =>
          /\ extraction = NoExtraction /\ resp = NoResponse /\ panic = ""
          /\ acceptOpt.value.some <=> acceptOpt.header.present /\ acceptOpt.header.ascii
          /\ acceptOpt.value.some => acceptOpt.value.text = acceptOpt.header.text
          /\ ~acceptOpt.value.some => acceptOpt.value = None)
  /\ [][ acceptOpt' # acceptOpt /\ acceptOpt' # NoAccept => pc' = "accepted" ]_vars

\* an Accept header that is text but no MIME type was returned as it is
C13_Witness ==
  /\ pc = "accepted"
  /\ acceptOpt.header.text = <<"application", " ", "/", "yaml">>
  /\ acceptOpt.value = Some(acceptOpt.header.text)

\* what a deserializer returns for a body when it is run by its name
DeserializeBy(name, body, T) ==
  IF name = "deserialize_urlencoded" THEN deserialize_urlencoded(body, T)
  ELSE IF name = "deserialize_yaml" THEN deserialize_yaml(body, T)
  ELSE deserialize_json(body, T)

\* what a serializer returns for a value when it is run by its name
SerializeBy(name, data) ==
  IF name = "serialize_urlencoded" THEN serialize_urlencoded(data)
  ELSE IF name = "serialize_yaml" THEN serialize_yaml(data)
  ELSE IF name = "serialize_xml" THEN serialize_xml(data)
  ELSE serialize_json(data)

\* from_request has run a deserializer and has not been answered yet
Decoded == pc \in {"extracted", "rejected", "panicked"} /\ calls # <<>>

\* C14: one call runs one codec function: from_request runs at most one
\* deserializer and into_response exactly one serializer, and when that one
\* fails the call fails with its error; no other codec, the JSON fallback
\* included, is run on the same input.
C14_NoCodecRetry ==
  /\ Len(calls) <= 1
  /\ Decoded =>
       LET alone == DeserializeBy(calls[1], bytes, target) IN
       /\ alone.ok => pc = "extracted" /\ extraction.data = alone.data
       /\ ~alone.ok => pc # "extracted"
       /\ ~alone.ok /\ pc = "rejected" => extraction.rejection.err = alone.err
  /\ pc = "responded" /\ out # NoOut =>
       /\ Len(calls) = 1
       /\ LET alone == SerializeBy(calls[1], out.data) IN
          /\ result = alone
          /\ ~alone.ok => resp.status = INTERNAL_SERVER_ERROR
                          /\ resp.body = <<W(alone.msg)>>

\* the form deserializer failed on a body that is JSON, and the request was
\* rejected with its error
C14_Witness ==
  /\ pc = "rejected"
  /\ calls = <<"deserialize_urlencoded">>
  /\ deserialize_json(bytes, target).ok
  /\ extraction.rejection.variant = "UrlEncodedError"

\* the feature a codec function is compiled under, "" when it always is
FeatureOf(name) ==
  IF name \in {"serialize_urlencoded", "deserialize_urlencoded"} THEN "urlencoded"
  ELSE IF name \in {"serialize_yaml", "deserialize_yaml"} THEN "yaml"
  ELSE IF name = "serialize_xml" THEN "xml"
  ELSE ""

\* a MIME text that parses and selects, by its subtype or its suffix, a
\* codec that is not compiled in
SelectsDisabled(h) ==
  /\ ~Unparsable(h)
  /\ FeatureOf(ExpectedSerializer(ParseMime(HeaderStr(h)), AllFeatures))
       \notin features \cup {""}

\* C15 as stated: a MIME text that would select a codec whose feature is
\* off resolves to JSON on both paths.
C15_DisabledResolvesToJson ==
  [][ /\ (Decodes /\ SelectsDisabled(header) => calls' = <<"deserialize_json">>)
      /\ (pc = "encode" /\ SelectsDisabled(hint) => calls' = <<"serialize_json">>)
    ]_vars

\* the codecs of a set of features
CodecsOf(feats) ==
  { IF f = "urlencoded" THEN "UrlEncoded" ELSE IF f = "yaml" THEN "Yaml" ELSE "Xml" :
      f \in feats }

\* the codecs the MIME texts resolve to
EncodeTargets(feats) ==
  { EncodeCodec(ParseMime(t), feats) : t \in { u \in MimeTexts : ParseMime(u).ok } }
DecodeTargets(feats) ==
  { DecodeCodec(ParseMime(t), feats) : t \in { u \in MimeTexts : ParseMime(u).ok } }

\* C15: a codec whose feature is off is never run.  A MIME text that would
\* select it is resolved as if the codec were not in the table: decoded as
\* JSON, and encoded as JSON unless its suffix names a codec that is
\* compiled in, which then encodes it.  The codecs into_response resolves to
\* are JSON and the compiled-in codecs; the codecs from_request resolves to
\* are JSON and the compiled-in codecs that have a deserializer.
C15_DisabledCodecNeverRuns ==
  /\ [](\A i \in DOMAIN calls : FeatureOf(calls[i]) \in features \cup {""})
  /\ [](pc = "idle" =>
          /\ EncodeTargets(features) = {"Json"} \cup CodecsOf(features)
          /\ DecodeTargets(features) = {"Json"} \cup CodecsOf(features \ {"xml"}))
  /\ [][ /\ (Decodes /\ SelectsDisabled(header) => calls' = <<"deserialize_json">>)
         /\ (pc = "encode" /\ SelectsDisabled(hint) =>
               LET m == ParseMime(HeaderStr(hint)) IN
               /\ calls' = <<ExpectedSerializer(m, features)>>
               /\ calls' # <<"serialize_json">> =>
                    /\ HasSuffix(m)
                    /\ TableSerializer(Suffix(m), features) = calls'[1])
       ]_vars

\* application/yaml+xml without the yaml feature was encoded as XML
C15_Witness ==
  /\ pc = "responded"
  /\ hint.text = <<"application", "/", "yaml", "+", "xml">>
  /\ "yaml" \notin features /\ "xml" \in features
  /\ calls = <<"serialize_xml">>
  /\ resp.status = OK

\* what into_response returns for a value and a hint when it runs alone
IntoResponseAlone(v, h, feats) ==
  LET m   == ResponseMime(WithMimeStr(HeaderStr(h)))
      res == Serialize(EncodeCodec(m, feats), v)
  IN EncodeResponse(m, res, res.out)

\* what from_request returns for a header, a body and a target when it runs
\* alone: the extraction, or the panic
FromRequestAlone(h, body, T, feats) ==
  LET res   == Deserialize(DecodeCodec(RequestMime(h), feats), body.bytes, T)
      class == Classify(res.err)
  IN IF ~body.ok
       THEN [extraction |-> [state |-> "err", data |-> NoData,
                             rejection |-> Rejection("BytesRejection", TransportErr)],
             panic |-> ""]
     ELSE IF res.ok
       THEN [extraction |-> [state |-> "ok", data |-> res.data,
                             rejection |-> NoRejection],
             panic |-> ""]
     ELSE IF class.panic # ""
       THEN [extraction |-> NoExtraction, panic |-> class.panic]
     ELSE [extraction |-> [state |-> "err", data |-> NoData,
                           rejection |-> class.rejection],
           panic |-> ""]

\* call p has returned
Done(p) == tasks[p].at = "done"

\* C16: calls of from_request and into_response that run at the same time
\* do not interfere: however their steps interleave, what a call returns is
\* what it returns when it runs alone on its arguments, a returned result is
\* not changed by the calls still running, and the features never change.
C16_CallsDoNotInterfere ==
  /\ [](\A p \in Procs : Done(p) =>
          LET t == tasks[p] IN
          /\ t.kind = "encode" =>
               t.resp = IntoResponseAlone(t.data, t.header, features)
          /\ t.kind = "decode" =>
               LET alone == FromRequestAlone(t.header, t.body, t.target, features) IN
               t.extraction = alone.extraction /\ t.panic = alone.panic)
  /\ [][ /\ features' = features
         /\ \A p \in Procs : Done(p) => tasks'[p] = tasks[p] ]_vars

\* two calls of into_response have returned, one with a YAML body and one
\* with the error of the JSON serializer
C16_Witness ==
  /\ Done(1) /\ Done(2)
  /\ tasks[1].kind = "encode" /\ tasks[2].kind = "encode"
  /\ tasks[1].resp.status = OK
  /\ tasks[1].resp.contentType = <<"application", "/", "yaml">>
  /\ tasks[1].resp.body = serialize_yaml(tasks[1].data).out
  /\ tasks[2].resp.status = INTERNAL_SERVER_ERROR
  /\ "yaml" \in features
====
